---- MODULE Spec2Model ----
(***************************************************************************)
(* A model of datastruct: records declared field by field, packed to and   *)
(* unpacked from a byte stream (src/datastruct/main.py, types.py,          *)
(* utils/fields.py).                                                       *)
(***************************************************************************)
EXTENDS Integers, Sequences, FiniteSets, TLC

\* ------------------------------------------------------------------ bounds
MaxLen == 2
MaxStream == 4
MaxPacks == 2

\* ------------------------------------------------------------ Python values
\* Every value is [k |-> its class, v |-> its payload as a sequence].
UNSET == [k |-> "unset", v |-> <<>>]
NoneV == [k |-> "none", v |-> <<>>]
ABSENT == [k |-> "absent", v |-> <<>>]
IntV(n) == [k |-> "int", v |-> <<n>>]
BoolV(b) == [k |-> "bool", v |-> <<IF b THEN 1 ELSE 0>>]
BytesV(s) == [k |-> "bytes", v |-> s]
StrV(s) == [k |-> "str", v |-> s]
EnumV(n) == [k |-> "Color", v |-> <<n>>]
ListV(s) == [k |-> "list", v |-> s]
TupleV(s) == [k |-> "tuple", v |-> s]
StructV(t, s) == [k |-> t, v |-> s]
FmtV(endian, code) == [k |-> "fmt", v |-> <<endian, code>>]

StructTypes == {"Ints", "Text", "Hues", "Rep", "Cond", "Pad", "Run", "Built",
                "Inner", "Mid", "Outer"}
EnumMembers == {1, 2}

IsInt(x) == x.k \in {"int", "bool"}
IsStruct(x) == x.k \in StructTypes
Truthy(x) ==
  CASE x.k \in {"none", "absent"} -> FALSE
    [] x.k \in {"int", "bool"} -> x.v[1] # 0
    [] x.k \in {"bytes", "str", "list", "tuple"} -> Len(x.v) > 0
    [] OTHER -> TRUE

Min(a, b) == IF a < b THEN a ELSE b

\* ------------------------------------------------------------------ errors
NoErr == [kind |-> "none", text |-> "", suffixes |-> <<>>]
Raise(kind, text) == [kind |-> kind, text |-> text, suffixes |-> <<>>]
Failed(e) == e.kind # "none"
EXCEPTIONS == {"ValueError", "TypeError", "struct.error"}

\* ------------------------------------------------------------------ stream
NewIO(buf) == [buf |-> buf, pos |-> 0]
io_write(io, b) ==
  [buf |-> SubSeq(io.buf, 1, io.pos) \o b
           \o SubSeq(io.buf, io.pos + Len(b) + 1, Len(io.buf)),
   pos |-> io.pos + Len(b)]
io_read_data(io, n) == SubSeq(io.buf, io.pos + 1, Min(io.pos + n, Len(io.buf)))
io_read_next(io, n) == [io EXCEPT !.pos = Min(io.pos + n, Len(io.buf))]

\* ----------------------------------------------------------- binary helpers
pad_up(position, modulus) == (modulus - (position % modulus)) % modulus
repstr(pattern, length) ==
  [j \in 1..length |-> pattern[((j - 1) % Len(pattern)) + 1]]

\* -------------------------------------------------------------- expressions
\* A Value-or-Expression attribute: a literal ("lit") or a function of the
\* context (every other op).
Lit(x) == [op |-> "lit", v |-> x]
NoneE == Lit(NoneV)
Get(n) == [op |-> "get", v |-> [k |-> "name", v |-> <<n>>]]
Const(x) == [op |-> "const", v |-> x]
ItemEq(c) == [op |-> "item_eq", v |-> IntV(c)]
IdxEq(c) == [op |-> "i_eq", v |-> IntV(c)]
IdxLt(c) == [op |-> "i_lt", v |-> IntV(c)]
Callable(e) == e.op # "lit"
ExprTruthy(e) == Callable(e) \/ Truthy(e.v)

CtxKeys == {"a", "b", "c", "n", "flag", "s", "e", "items", "val", "data",
            "x", "y", "inner", "mid", "hdr", "i", "item"}
EmptyCtx == [key \in CtxKeys |-> ABSENT]
ctx_get(ctx, key) == IF ctx[key] = ABSENT THEN NoneV ELSE ctx[key]
ctx_set(ctx, key, x) == [ctx EXCEPT ![key] = x]
ctx_pop(ctx, key) == [ctx EXCEPT ![key] = ABSENT]

evaluate(ctx, e) ==
  CASE e.op = "lit" -> e.v
    [] e.op = "get" -> ctx_get(ctx, e.v.v[1])
    [] e.op = "const" -> e.v
    [] e.op = "item_eq" -> BoolV(ctx_get(ctx, "item") = e.v)
    [] e.op = "i_eq" -> BoolV(ctx_get(ctx, "i") = e.v)
    [] e.op = "i_lt" -> BoolV(ctx_get(ctx, "i").v[1] < e.v.v[1])

build_context(values) == values

\* -------------------------------------------------------------- descriptors
\* A field descriptor is the dataclass Field (name, type, default) together
\* with its FieldMeta; an attribute the metadata lacks reads as None.
ARRAYS == {"list", "tuple"}
Ty(origin, arg) == [origin |-> origin, arg |-> arg]
Plain(c) == Ty(c, "None")
NoField == [ftype |-> "NONE"]
NoAttrs ==
  [fmt |-> NoneE, builder |-> NoneE, always |-> FALSE,
   length |-> NoneE, modulus |-> NoneE, pattern |-> <<>>, check |-> FALSE,
   count |-> NoneE, when |-> NoneE, last |-> NoneE,
   condition |-> NoneE, if_not |-> NoneE]

build_field(ftype, default, public, base, kw) ==
  [name |-> "None", type |-> Ty("None", "None"), default |-> default,
   validated |-> FALSE, public |-> public, ftype |-> ftype, base |-> base,
   fmt |-> kw.fmt, builder |-> kw.builder, always |-> kw.always,
   length |-> kw.length, modulus |-> kw.modulus, pattern |-> kw.pattern,
   check |-> kw.check, count |-> kw.count, when |-> kw.when,
   last |-> kw.last, condition |-> kw.condition, if_not |-> kw.if_not]

build_wrapper(ftype, base, kw) ==
  build_field(ftype, base.default, base.public, base, kw)

\* the declaration API
field(fmt) == build_field("FIELD", UNSET, TRUE, NoField, [NoAttrs EXCEPT !.fmt = fmt])
subfield == build_field("FIELD", UNSET, TRUE, NoField, NoAttrs)
built(fmt, builder, always) ==
  build_field("FIELD", UNSET, TRUE, NoField,
              [NoAttrs EXCEPT !.fmt = fmt, !.builder = builder, !.always = always])
padding(length, pattern, check) ==
  build_field("PADDING", UNSET, FALSE, NoField,
              [NoAttrs EXCEPT !.length = length, !.pattern = pattern, !.check = check])
align(modulus, pattern, check) ==
  build_field("PADDING", UNSET, FALSE, NoField,
              [NoAttrs EXCEPT !.modulus = modulus, !.pattern = pattern, !.check = check])
repeat(count, when, last, base) ==
  build_wrapper("REPEAT", base,
                [NoAttrs EXCEPT !.count = count, !.when = when, !.last = last])
cond(condition, if_not, base) ==
  build_wrapper("COND", base,
                [NoAttrs EXCEPT !.condition = condition, !.if_not = if_not])
\* a class member: the dataclass machinery names and types the descriptor
Member(name, type, f) == [f EXCEPT !.name = name, !.type = type]

\* --------------------------------------------------------------- validation
field_get_type(f) ==
  IF f.type.origin = "Ellipsis" THEN <<"Ellipsis", "None">>
  ELSE IF f.type.origin \in ARRAYS /\ f.type.arg # "None"
       THEN <<f.type.origin, f.type.arg>>
       ELSE <<f.type.origin, "None">>

fmt_check(fmt) ==
  IF Callable(fmt) \/ fmt.v.k # "fmt" \/ fmt.v.v[2] \in {"B", "H", "?", "2s"} THEN NoErr
  ELSE Raise("struct.error", "bad char in struct format")

\* the checks of a public field's kind, before its base is visited
validate_kind(f, field_type, item_type) ==
  IF f.ftype = "FIELD" THEN
    IF item_type # "None"
      THEN Raise("ValueError", "Can't use a list without repeat() wrapper")
    ELSE IF field_type \in StructTypes /\ ExprTruthy(f.fmt)
      THEN Raise("ValueError", "Use subfield() for instances of DataStruct")
    ELSE IF ExprTruthy(f.fmt) THEN fmt_check(f.fmt)
    ELSE NoErr
  ELSE IF f.ftype = "REPEAT" THEN
    IF item_type = "None"
      THEN Raise("ValueError", "Can't use repeat() for a non-list field")
    ELSE IF f.base.ftype # "FIELD"
      THEN Raise("ValueError", "Only field(), subfield() and built() can be used with repeat()")
    ELSE IF ExprTruthy(f.base.builder) /\ ~f.base.always
      THEN Raise("ValueError", "Built fields inside repeat() are always built")
    ELSE NoErr
  ELSE NoErr

\* a validation that never records that it ran
mark_nothing(f) == f
mark_validated(f) == [f EXCEPT !.validated = TRUE]

skip_special(f, field_type) ==
  IF field_type # "Ellipsis"
    THEN [f |-> f, err |-> Raise("TypeError", "Use Ellipsis (...) for special fields")]
    ELSE [f |-> f, err |-> NoErr]

\* fields.py 172-180: the name and type go to the base, which is validated
base_named(f, field_type, item_type) ==
  IF f.ftype = "REPEAT"
    THEN [f.base EXCEPT !.name = f.name,
                        !.type = Plain(IF item_type # "None" THEN item_type ELSE field_type)]
    ELSE [f.base EXCEPT !.name = f.name, !.type = f.type]
retyped(f, field_type) ==
  IF f.ftype = "REPEAT" THEN [f EXCEPT !.type = Plain(field_type)] ELSE f
with_base(f, r) ==
  IF Failed(r.err) THEN [f |-> [f EXCEPT !.base = r.f], err |-> r.err]
  ELSE [f |-> mark_validated([f EXCEPT !.base = r.f]), err |-> NoErr]

RECURSIVE field_validate(_)
\* fields.py 132-181
validate_public(f, field_type, item_type) ==
  IF field_type = "Ellipsis"
    THEN [f |-> f, err |-> Raise("TypeError", "Cannot use Ellipsis for standard fields")]
  ELSE IF Failed(validate_kind(f, field_type, item_type))
    THEN [f |-> f, err |-> validate_kind(f, field_type, item_type)]
  ELSE IF f.base.ftype # "NONE"
    THEN with_base(retyped(f, field_type),
                   field_validate(base_named(f, field_type, item_type)))
  ELSE [f |-> mark_validated(f), err |-> NoErr]

field_validate(f) ==
  IF f.validated THEN [f |-> f, err |-> NoErr]
  ELSE IF ~f.public THEN skip_special(f, field_get_type(f)[1])
  ELSE validate_public(f, field_get_type(f)[1], field_get_type(f)[2])

\* ------------------------------------------------------- scalar wire coding
field_encode(x) ==
  IF x.k = "str" THEN BytesV(x.v)
  ELSE IF IsInt(x) THEN x
  ELSE IF x.k = "Color" THEN IntV(x.v[1])
  ELSE x

field_decode(x, cls) ==
  IF cls = "str" THEN [val |-> StrV(x.v), err |-> NoErr]
  ELSE IF cls = "Color" THEN
    IF x.v[1] \in EnumMembers THEN [val |-> EnumV(x.v[1]), err |-> NoErr]
    ELSE [val |-> x, err |-> Raise("ValueError", "not a valid Color")]
  ELSE [val |-> x, err |-> NoErr]

BigEndian(fmt) == fmt.v[1] \in {">", "!"}
struct_calcsize(fmt) == IF fmt.v[2] \in {"H", "2s"} THEN 2 ELSE 1
struct_pack(fmt, x) ==
  LET code == fmt.v[2] IN
  CASE code = "B" ->
         IF IsInt(x) /\ x.v[1] \in 0..255
           THEN [bytes |-> <<x.v[1]>>, err |-> NoErr]
           ELSE [bytes |-> <<>>, err |-> Raise("struct.error", "ubyte format requires 0 <= number <= 255")]
    [] code = "H" ->
         IF IsInt(x) /\ x.v[1] \in 0..65535
           THEN [bytes |-> IF BigEndian(fmt) THEN <<x.v[1] \div 256, x.v[1] % 256>>
                                             ELSE <<x.v[1] % 256, x.v[1] \div 256>>,
                 err |-> NoErr]
           ELSE [bytes |-> <<>>, err |-> Raise("struct.error", "ushort format requires 0 <= number <= 65535")]
    [] code = "?" -> [bytes |-> <<IF Truthy(x) THEN 1 ELSE 0>>, err |-> NoErr]
    [] code = "2s" ->
         IF x.k = "bytes"
           THEN [bytes |-> [j \in 1..2 |-> IF j <= Len(x.v) THEN x.v[j] ELSE 0],
                 err |-> NoErr]
           ELSE [bytes |-> <<>>, err |-> Raise("struct.error", "argument for 's' must be a bytes object")]
    [] OTHER -> [bytes |-> <<>>, err |-> Raise("struct.error", "bad char in struct format")]

struct_unpack(fmt, data) ==
  LET code == fmt.v[2] IN
  IF Len(data) # struct_calcsize(fmt)
    THEN [val |-> NoneV, err |-> Raise("struct.error", "unpack requires a buffer of the format's size")]
  ELSE CASE code = "B" -> [val |-> IntV(data[1]), err |-> NoErr]
         [] code = "H" -> [val |-> IF BigEndian(fmt) THEN IntV(data[1] * 256 + data[2])
                                                     ELSE IntV(data[2] * 256 + data[1]),
                           err |-> NoErr]
         [] code = "?" -> [val |-> BoolV(data[1] # 0), err |-> NoErr]
         [] code = "2s" -> [val |-> BytesV(data), err |-> NoErr]
         [] OTHER -> [val |-> NoneV, err |-> Raise("struct.error", "bad char in struct format")]

\* the record type's configuration
config_endianness == "@"
fmt_evaluate(ctx, fmt, endianness) ==
  LET r == evaluate(ctx, fmt) IN
  IF r.k = "fmt" /\ r.v[1] = "" THEN FmtV(endianness, r.v[2]) ELSE r

\* --------------------------------------------------------- padding geometry
field_get_padding(ctx, tell, meta) ==
  IF ExprTruthy(meta.length)
    THEN LET length == evaluate(ctx, meta.length).v[1]
         IN [length |-> length, padding |-> repstr(meta.pattern, length),
             check |-> meta.check, err |-> NoErr]
  ELSE IF ExprTruthy(meta.modulus)
    THEN LET length == pad_up(tell, evaluate(ctx, meta.modulus).v[1])
         IN [length |-> length, padding |-> repstr(meta.pattern, length),
             check |-> meta.check, err |-> NoErr]
  ELSE [length |-> 0, padding |-> <<>>, check |-> meta.check,
        err |-> Raise("ValueError", "Unknown padding type")]


\* ------------------------------------------------------- the record types
\* Formats, as written in a declaration (no endianness prefix unless given)
FmtB == Lit(FmtV("", "B"))

\* the declarations of the record types other records nest
Decl(t) ==
  CASE t = "Inner" ->
         <<Member("x", Plain("bytes"), field(Lit(IntV(2)))),
           Member("y", Plain("int"), field(FmtB))>>
    [] t = "Mid" ->
         <<Member("hdr", Plain("int"), field(FmtB)),
           Member("inner", Plain("Inner"), subfield)>>
    [] t = "Outer" ->
         <<Member("a", Plain("int"), field(FmtB)),
           Member("mid", Plain("Mid"), subfield)>>
    [] OTHER -> <<>>

RepFields(count, when, last, base) ==
  <<Member("n", Plain("int"), field(FmtB)),
    Member("items", Ty("list", "int"), repeat(count, when, last, base))>>
RepDecls ==
  LET Counts == <<NoneE, Lit(IntV(2)), Get("n")>>
      Whens == <<NoneE, IdxLt(1)>>
      Lasts == <<NoneE, ItemEq(0), IdxEq(1)>>
  IN
  [j \in 1..(Len(Counts) * Len(Whens) * Len(Lasts)) |->
     [t |-> "Rep",
      fields |-> RepFields(Counts[((j - 1) % Len(Counts)) + 1],
                           Whens[(((j - 1) \div Len(Counts)) % Len(Whens)) + 1],
                           Lasts[((j - 1) \div (Len(Counts) * Len(Whens))) + 1],
                           field(FmtB))]]
RepBuiltDecls ==
  [j \in 1..3 |->
     [t |-> "Rep",
      fields |-> RepFields(<<NoneE, Lit(IntV(2)), Get("n")>>[j], NoneE,
                           IF j = 1 THEN IdxEq(1) ELSE NoneE,
                           built(FmtB, Get("n"), TRUE))]]

CondFields(flagfmt, if_not, base) ==
  <<Member("flag", Plain("bool"), field(flagfmt)),
    Member("val", Plain("int"), cond(Get("flag"), if_not, base))>>
CondDecls ==
  LET FlagFmts == <<Lit(FmtV("", "?")), FmtB>>
      IfNots == <<Lit(UNSET), Lit(IntV(-1))>>
      CondBases == <<field(FmtB), built(FmtB, Const(IntV(1)), FALSE),
                     built(FmtB, Const(IntV(1)), TRUE)>>
  IN
  [j \in 1..(Len(FlagFmts) * Len(IfNots) * Len(CondBases)) |->
     [t |-> "Cond",
      fields |-> CondFields(FlagFmts[((j - 1) % Len(FlagFmts)) + 1],
                            IfNots[(((j - 1) \div Len(FlagFmts)) % Len(IfNots)) + 1],
                            CondBases[((j - 1) \div (Len(FlagFmts) * Len(IfNots))) + 1])]]

PadFields(pad) ==
  <<Member("a", Plain("int"), field(FmtB)),
    Member("_pad", Plain("Ellipsis"), pad),
    Member("b", Plain("int"), field(FmtB))>>
PadDecls ==
  LET Lengths == <<Lit(IntV(2)), Lit(IntV(3)), Lit(IntV(0)), Get("a")>>
      Patterns == <<(<<0>>), (<<1, 2>>)>>
  IN
  [j \in 1..(Len(Lengths) * Len(Patterns) * 2) |->
     [t |-> "Pad",
      fields |-> PadFields(padding(Lengths[((j - 1) % Len(Lengths)) + 1],
                                   Patterns[(((j - 1) \div Len(Lengths)) % Len(Patterns)) + 1],
                                   (j - 1) \div (Len(Lengths) * Len(Patterns)) = 0))]]
  \o <<[t |-> "Pad", fields |-> PadFields(align(Lit(IntV(2)), <<0>>, TRUE))]>>

RunFields(fmt) ==
  <<Member("n", Plain("int"), field(FmtB)),
    Member("data", Plain("bytes"), field(fmt))>>
BuiltFields(always) ==
  <<Member("a", Plain("int"), field(FmtB)),
    Member("b", Plain("int"), built(FmtB, Get("a"), always)),
    Member("c", Plain("int"), built(FmtB, Get("b"), TRUE))>>
PlainDecls ==
  <<[t |-> "Ints", fields |-> <<Member("a", Plain("int"), field(FmtB)),
                                Member("b", Plain("int"), field(Lit(FmtV(">", "H"))))>>],
    [t |-> "Text", fields |-> <<Member("s", Plain("str"), field(Lit(FmtV("", "2s"))))>>],
    [t |-> "Hues", fields |-> <<Member("e", Plain("Color"), field(FmtB))>>],
    [t |-> "Run", fields |-> RunFields(Lit(IntV(2)))],
    [t |-> "Run", fields |-> RunFields(Get("n"))],
    [t |-> "Built", fields |-> BuiltFields(FALSE)],
    [t |-> "Built", fields |-> BuiltFields(TRUE)],
    [t |-> "Inner", fields |-> Decl("Inner")],
    [t |-> "Mid", fields |-> Decl("Mid")],
    [t |-> "Outer", fields |-> Decl("Outer")]>>

Catalogue == PlainDecls \o RepDecls \o RepBuiltDecls \o CondDecls \o PadDecls

\* ------------------------------------------------------- the codec's state
\* One pack or unpack call on one record works on
\*   io      the byte stream            ctx     its evaluation context
\*   self    the values of the record's fields, in declaration order
\*           (pack: the instance's attributes; unpack: the collected values)
\*   fields  the record type's descriptors   err  the exception in flight
\*   ret     the value the last read or write returned
\*   log     one entry per evaluate() call: where, and the context it saw
At(t, k, d) == [t |-> t, k |-> k, d |-> d]
Note(s, at, attr) ==
  [s EXCEPT !.log = Append(@, [t |-> at.t, k |-> at.k, d |-> at.d,
                               attr |-> attr, ctx |-> s.ctx])]
Fail(s, e) == [s EXCEPT !.err = e]
Sized(x) == x.k \in {"bytes", "str", "list", "tuple"}
\* what a sub-record's pack or unpack did, seen from the calling record
absorb(s, r) == [s EXCEPT !.io = r.io, !.log = r.log, !.err = r.err, !.ret = r.ret]
sub_result(r, ret) == [io |-> r.io, ret |-> ret, err |-> r.err, log |-> r.log]

\* a byte run that must be longer than its count
write_bytes_strict(s, n, value) ==
  IF ~Sized(value) THEN Fail(s, Raise("TypeError", "object has no len()"))
  ELSE IF Len(value.v) <= n
    THEN Fail(s, Raise("ValueError", "Not enough bytes to write"))
  ELSE IF value.k # "bytes"
    THEN Fail(s, Raise("TypeError", "a bytes-like object is required"))
  ELSE [s EXCEPT !.io = io_write(@, SubSeq(value.v, 1, n)), !.ret = value]

\* main.py 60-65: a format that is a byte count
write_bytes(s, n, value) ==
  IF ~Sized(value) THEN Fail(s, Raise("TypeError", "object has no len()"))
  ELSE IF Len(value.v) < n
    THEN Fail(s, Raise("ValueError", "Not enough bytes to write"))
  ELSE IF value.k # "bytes"
    THEN Fail(s, Raise("TypeError", "a bytes-like object is required"))
  ELSE [s EXCEPT !.io = io_write(@, SubSeq(value.v, 1, n)), !.ret = value]

\* main.py 66-69
write_packed(s, p, value) ==
  IF Failed(p.err) THEN Fail(s, p.err)
  ELSE [s EXCEPT !.io = io_write(@, p.bytes), !.ret = value]

\* main.py 58-69
write_as(s, fmt, value) ==
  IF IsInt(fmt) THEN write_bytes(s, fmt.v[1], value)
  ELSE IF fmt.k = "fmt" THEN write_packed(s, struct_pack(fmt, field_encode(value)), value)
  ELSE Fail(s, Raise("TypeError", "Struct() argument 1 must be a str or bytes object"))
write_scalar(s, meta, value) ==
  write_as(s, fmt_evaluate(s.ctx, meta.fmt, config_endianness), value)

\* main.py 52
\* a builder that runs only for an unset value
must_build_unset(meta, value) == ExprTruthy(meta.builder) /\ value = UNSET
must_build(meta, value) ==
  ExprTruthy(meta.builder) /\ (value = UNSET \/ meta.always)
built_value(s, meta, value) ==
  IF must_build(meta, value) THEN evaluate(s.ctx, meta.builder) ELSE value
note_build(s, at, meta, value) ==
  IF must_build(meta, value) THEN Note(s, at, "builder") ELSE s

RECURSIVE DS_pack(_, _, _, _)
RECURSIVE DS_unpack(_, _, _, _)
RECURSIVE DS_new(_, _, _)
RECURSIVE write_field(_, _, _, _)
RECURSIVE repeat_write(_, _, _, _, _, _)
RECURSIVE pack_from(_, _, _, _)

\* main.py 54-69
write_resolved(s, at, meta, value) ==
  IF IsStruct(value) THEN absorb(s, DS_pack(value, s.io, s.log, at.d + 1))
  ELSE write_scalar(Note(s, at, "fmt"), meta, value)

\* main.py 50-69
write_value(s, at, meta, value) ==
  write_resolved(note_build(s, at, meta, value), at, meta, built_value(s, meta, value))

\* main.py 80-83; a sub-record that failed half-way is the same object the
\* instance holds, so what its pack stored on it is kept
store_value(r, at, f, value) ==
  IF Failed(r.err)
    THEN IF IsStruct(value) /\ ~must_build(f, value)
           THEN [r EXCEPT !.self[at.k] = r.ret] ELSE r
    ELSE [r EXCEPT !.self[at.k] = r.ret, !.ctx[f.name] = r.ret]

\* main.py 78-83
write_plain(s, at, f, value) == store_value(write_value(s, at, f, value), at, f, value)

\* main.py 89-92
write_pattern(s, p) ==
  IF Failed(p.err) THEN Fail(s, p.err) ELSE [s EXCEPT !.io = io_write(@, p.padding)]
write_padding(s, at, f) ==
  write_pattern(Note(s, at, "length"), field_get_padding(s.ctx, s.io.pos, f))

\* main.py 123-130: the element goes back into a list; a tuple is not
\* reassigned, but a sub-record in it is the object that was packed
put_item(items, i, item, taken) ==
  IF items.k = "list"
    THEN IF Len(items.v) <= i THEN ListV(Append(items.v, item))
         ELSE ListV([items.v EXCEPT ![i + 1] = item])
    ELSE IF taken /\ IsStruct(item) THEN TupleV([items.v EXCEPT ![i + 1] = item])
         ELSE items

\* main.py 113, 115, 135
repeat_continues(count, i) == count = NoneV \/ i < count.v[1]
when_stops(c, f) == ExprTruthy(f.when) /\ ~Truthy(evaluate(c, f.when))
\* a loop that ignores `last`
last_ignored(c, f) == FALSE
last_stops(c, f) == Truthy(evaluate(c, f.last))

\* main.py 114-115
repeat_enter(s, at, f, i) ==
  IF ExprTruthy(f.when)
    THEN Note([s EXCEPT !.ctx = ctx_set(@, "i", IntV(i))], at, "when")
    ELSE [s EXCEPT !.ctx = ctx_set(@, "i", IntV(i))]
\* main.py 118-121
takes_items(f) == ~ExprTruthy(f.base.builder)
repeat_item(f, items, i) == IF takes_items(f) THEN items.v[i + 1] ELSE UNSET
keep_item(r, at, f, items1) == [r EXCEPT !.self[at.k] = items1, !.ctx[f.name] = items1]
\* main.py 132-134
offer_item(r, at) == Note([r EXCEPT !.ctx = ctx_set(@, "item", r.ret)], at, "last")
drop_item(r) == [r EXCEPT !.ctx = ctx_pop(@, "item")]

\* main.py 133-137: the element is on the context; `last` decides
repeat_after(r, at, f, items1, count, i) ==
  IF last_stops(r.ctx, f) THEN drop_item(r)
  ELSE repeat_write(drop_item(r), at, f, items1, count, i + 1)

\* main.py 122-130: the element was written (or its write raised)
repeat_wrote(r, at, f, items, items1, count, i) ==
  IF Failed(r.err)
    THEN IF takes_items(f) /\ IsStruct(items.v[i + 1]) THEN keep_item(r, at, f, items1) ELSE r
    ELSE repeat_after(offer_item(keep_item(r, at, f, items1), at), at, f, items1, count, i)
repeat_stored(r, at, f, items, count, i) ==
  repeat_wrote(r, at, f, items, put_item(items, i, r.ret, takes_items(f)), count, i)

\* main.py 119: next() on an iterator with nothing left
\* an exhausted sequence that ends the loop as a break does
next_breaks(s) == s
next_raises(s) == Fail(s, Raise("StopIteration", ""))

\* main.py 115-122
repeat_body(s, at, f, items, count, i) ==
  IF when_stops(s.ctx, f) THEN s
  ELSE IF takes_items(f) /\ i >= Len(items.v) THEN next_raises(s)
  ELSE repeat_stored(write_value(s, at, f.base, repeat_item(f, items, i)),
                     at, f, items, count, i)

\* main.py 113-138: the loop from index i on
repeat_write(s, at, f, items, count, i) ==
  IF ~repeat_continues(count, i) THEN s
  ELSE repeat_body(repeat_enter(s, at, f, i), at, f, items, count, i)

\* main.py 105
\* a repeat that never compares the sequence's length with the count
length_unchecked(count, value, base) == FALSE
length_mismatch(count, value, base) ==
  IsInt(count) /\ Len(value.v) # count.v[1] /\ ~ExprTruthy(base.builder)

\* main.py 139
repeat_done(r) == IF Failed(r.err) THEN r ELSE [r EXCEPT !.ctx = ctx_pop(@, "i")]

\* main.py 100-139
write_counted(s, at, f, value, count) ==
  IF length_mismatch(count, value, f.base)
    THEN Fail(s, Raise("ValueError", "List size doesn't match repeat() 'count' parameter value"))
    ELSE repeat_done(repeat_write(s, at, f, value, count, 0))

\* main.py 94-139
write_repeat(s, at, f, value) ==
  IF value.k \notin ARRAYS THEN Fail(s, Raise("TypeError", "Value is not an array"))
  ELSE write_counted(Note(s, at, "count"), at, f, value, evaluate(s.ctx, f.count))

\* main.py 142, 227
\* a condition tested for falsiness instead of identity with False
cond_falsy(c, f) == ~Truthy(evaluate(c, f.condition))
cond_absent(c, f) == evaluate(c, f.condition) = BoolV(FALSE)

\* main.py 71-145
write_field(s, at, f, value) ==
  CASE f.ftype = "FIELD" -> write_plain(s, at, f, value)
    [] f.ftype = "PADDING" -> write_padding(s, at, f)
    [] f.ftype = "REPEAT" -> write_repeat(s, at, f, value)
    [] f.ftype = "COND" ->
         IF cond_absent(s.ctx, f) THEN Note(s, at, "condition")
         ELSE write_field(Note(s, at, "condition"), at, f.base, value)
    [] OTHER -> s

\* main.py 254-257, 281-284: the handler appends its suffix to the message
\* a handler that re-raises without touching the message
annotate_none(e, dir, t, name) == e
annotate(e, dir, t, name) ==
  IF e.kind \in EXCEPTIONS
    THEN [e EXCEPT !.suffixes = Append(@, <<dir, t, name>>)]
    ELSE e
annotate_step(r, dir, t, name) == [r EXCEPT !.err = annotate(@, dir, t, name)]

\* main.py 250-257: one turn of pack's loop, with its handler
pack_step(s, t, k, d) ==
  annotate_step(write_field(s, At(t, k, d), s.fields[k], s.self[k]),
                "packing", t, s.fields[k].name)

pack_from(s, t, k, d) ==
  IF k > Len(s.fields) \/ Failed(s.err) THEN s
  ELSE pack_from(pack_step(s, t, k, d), t, k + 1, d)

\* main.py 245-247: the context a pack starts from
seed_context(flds, given) ==
  build_context([key \in CtxKeys |->
     IF \E j \in 1..Len(flds) : flds[j].name = key /\ given[j] # UNSET
       THEN given[CHOOSE j \in 1..Len(flds) : flds[j].name = key /\ given[j] # UNSET]
       ELSE ABSENT])

pack_begin(flds, given, strm, lg) ==
  [io |-> strm, ctx |-> seed_context(flds, given), self |-> given, fields |-> flds,
   err |-> NoErr, ret |-> NoneV, log |-> lg]

\* ------------------------------------------------------------------ reading
IsClass(typ) == typ.origin # "None" /\ typ.arg = "None"

\* main.py 164-168: a format that is a byte count
read_run(s, data, n) ==
  IF Len(data) < n THEN Fail(s, Raise("ValueError", "Not enough bytes to read"))
  ELSE [s EXCEPT !.ret = BytesV(data)]
read_bytes(s, n) ==
  read_run([s EXCEPT !.io = io_read_next(@, n)], io_read_data(s.io, n), n)

\* main.py 172: the decoder is handed the builtin `type`, not the field's type
decoded(s, dec) ==
  IF Failed(dec.err) THEN Fail(s, dec.err) ELSE [s EXCEPT !.ret = dec.val]
read_unpacked(s, u) ==
  IF Failed(u.err) THEN Fail(s, u.err) ELSE decoded(s, field_decode(u.val, "type"))
\* main.py 169-173
read_scalar(s, fmt) ==
  read_unpacked([s EXCEPT !.io = io_read_next(@, struct_calcsize(fmt))],
                struct_unpack(fmt, io_read_data(s.io, struct_calcsize(fmt))))

\* main.py 162-173
read_as(s, fmt) ==
  IF IsInt(fmt) THEN read_bytes(s, fmt.v[1])
  ELSE IF fmt.k = "fmt" THEN read_scalar(s, fmt)
  ELSE Fail(s, Raise("TypeError", "Struct() argument 1 must be a str or bytes object"))

\* main.py 156-173
read_value(s, at, meta, typ) ==
  IF ~IsClass(typ)
    THEN Fail(s, Raise("TypeError", "issubclass() arg 1 must be a class"))
  ELSE IF typ.origin \in StructTypes
    THEN absorb(s, DS_unpack(typ.origin, s.io, s.log, at.d + 1))
  ELSE read_as(Note(s, at, "fmt"), fmt_evaluate(s.ctx, meta.fmt, config_endianness))

\* main.py 183-185
publish(r, f) == IF Failed(r.err) THEN r ELSE [r EXCEPT !.ctx[f.name] = r.ret]
read_plain(s, at, f) == publish(read_value(s, at, f, f.type), f)

\* main.py 192
\* a comparison that ignores the check flag
padding_differs(data, p) == data # p.padding
padding_rejected(data, p) == data # p.padding /\ p.check

\* main.py 191-195
read_pattern(s, p) ==
  IF Failed(p.err) THEN Fail(s, p.err)
  ELSE IF padding_rejected(io_read_data(s.io, p.length), p)
    THEN Fail([s EXCEPT !.io = io_read_next(@, p.length)],
              Raise("ValueError", "Invalid padding found"))
  ELSE [s EXCEPT !.io = io_read_next(@, p.length), !.ret = UNSET]
read_padding(s, at, f) ==
  read_pattern(Note(s, at, "length"), field_get_padding(s.ctx, s.io.pos, f))

RECURSIVE repeat_read(_, _, _, _, _, _)
\* main.py 213, 216-221
\* a list that is put on the context only when the repeat is over
add_item_later(r, f, items1) == r
add_item(r, f, items1) == [r EXCEPT !.ctx[f.name] = ListV(items1)]
read_after(r, at, f, items1, count, i) ==
  IF last_stops(r.ctx, f) THEN [drop_item(r) EXCEPT !.ret = ListV(items1)]
  ELSE repeat_read(drop_item(r), at, f, items1, count, i + 1)
\* main.py 212-221: the element was read (or its read raised)
repeat_got(r, at, f, items, count, i) ==
  IF Failed(r.err) THEN r
  ELSE read_after(offer_item(add_item(r, f, Append(items, r.ret)), at),
                  at, f, Append(items, r.ret), count, i)
\* main.py 209-212
read_body(s, at, f, items, count, i) ==
  IF when_stops(s.ctx, f) THEN [s EXCEPT !.ret = ListV(items)]
  ELSE repeat_got(read_value(s, at, f.base, f.base.type), at, f, items, count, i)
\* main.py 207-223: the loop from index i on
repeat_read(s, at, f, items, count, i) ==
  IF ~repeat_continues(count, i) THEN [s EXCEPT !.ret = ListV(items)]
  ELSE read_body(repeat_enter(s, at, f, i), at, f, items, count, i)

\* main.py 204-224: the list is on the context before the first element
read_counted(s, at, f, count) ==
  repeat_done(repeat_read([s EXCEPT !.ctx[f.name] = ListV(<<>>)], at, f, <<>>, count, 0))
\* main.py 197-224
read_repeat(s, at, f) ==
  IF ~(IsClass(f.type) /\ f.type.origin \in ARRAYS)
    THEN Fail(s, Raise("TypeError", "Field type is not an array"))
  ELSE read_counted(Note(s, at, "count"), at, f, evaluate(s.ctx, f.count))

\* main.py 228-232
read_absent(s, at, f) ==
  IF f.if_not # Lit(UNSET)
    THEN [Note(s, at, "if_not") EXCEPT !.ctx[f.name] = evaluate(s.ctx, f.if_not),
                                       !.ret = evaluate(s.ctx, f.if_not)]
    ELSE [s EXCEPT !.ret = UNSET]

\* main.py 175-233
RECURSIVE read_field(_, _, _)
read_field(s, at, f) ==
  CASE f.ftype = "FIELD" -> read_plain(s, at, f)
    [] f.ftype = "PADDING" -> read_padding(s, at, f)
    [] f.ftype = "REPEAT" -> read_repeat(s, at, f)
    [] f.ftype = "COND" ->
         IF cond_absent(s.ctx, f) THEN read_absent(Note(s, at, "condition"), at, f)
         ELSE read_field(Note(s, at, "condition"), at, f.base)
    [] OTHER -> [s EXCEPT !.ret = NoneV]

\* main.py 276-277
collect(r, k) ==
  IF ~Failed(r.err) /\ r.ret # UNSET THEN [r EXCEPT !.self[k] = r.ret] ELSE r
\* main.py 274-277
unpack_checked(s, valid, t, k, d) ==
  IF Failed(valid.err) THEN Fail([s EXCEPT !.fields[k] = valid.f], valid.err)
  ELSE collect(read_field([s EXCEPT !.fields[k] = valid.f], At(t, k, d), valid.f), k)
\* main.py 269-277, 281-284: one turn of unpack's loop, with its handler
unpack_step(s, t, k, d) ==
  annotate_step(unpack_checked(s, field_validate(s.fields[k]), t, k, d),
                "unpacking", t, s.fields[k].name)

RECURSIVE unpack_from(_, _, _, _)
unpack_from(s, t, k, d) ==
  IF k > Len(s.fields) \/ Failed(s.err) THEN s
  ELSE unpack_from(unpack_step(s, t, k, d), t, k + 1, d)

\* main.py 265-268
unpack_begin(flds, strm, lg) ==
  [io |-> strm, ctx |-> build_context(EmptyCtx), self |-> [j \in 1..Len(flds) |-> UNSET],
   fields |-> flds, err |-> NoErr, ret |-> NoneV, log |-> lg]

\* ------------------------------------------------------------ construction
RECURSIVE field_get_default(_)
RECURSIVE post_init_from(_, _)

\* the dataclass constructor: an argument not passed takes the declared default
init_attrs(flds, given) ==
  [j \in 1..Len(flds) |-> IF given[j] # UNSET THEN given[j] ELSE flds[j].default]

new_default(t, made) == [val |-> StructV(t, made.self), err |-> made.err]
field_get_default(f) ==
  IF ExprTruthy(f.builder) THEN [val |-> UNSET, err |-> NoErr]
  ELSE IF f.type.origin \in StructTypes /\ f.type.arg = "None" THEN
    new_default(f.type.origin,
                DS_new(f.type.origin, Decl(f.type.origin),
                       [j \in 1..Len(Decl(f.type.origin)) |-> UNSET]))
  ELSE IF f.ftype = "REPEAT" THEN [val |-> ListV(<<>>), err |-> NoErr]
  ELSE [val |-> NoneV, err |-> NoErr]

\* main.py 37-48
take_default(c, dflt, j) ==
  IF Failed(dflt.err) THEN [c EXCEPT !.err = dflt.err]
  ELSE IF dflt.val # NoneV THEN [c EXCEPT !.self[j] = dflt.val]
  ELSE [c EXCEPT !.err = Raise("ValueError", "field has no default and no value was passed, nor can it be built")]

\* main.py 31-48: one field of __post_init__; c is [fields, self, err]
post_init_field(c, valid, j) ==
  IF Failed(valid.err) THEN [c EXCEPT !.fields[j] = valid.f, !.err = valid.err]
  ELSE IF c.self[j] # UNSET \/ ~valid.f.public THEN [c EXCEPT !.fields[j] = valid.f]
  ELSE take_default([c EXCEPT !.fields[j] = valid.f], field_get_default(valid.f), j)

\* main.py 29-48: __post_init__ from field j on
post_init_from(c, j) ==
  IF j > Len(c.fields) \/ Failed(c.err) THEN c
  ELSE post_init_from(post_init_field(c, field_validate(c.fields[j]), j), j + 1)

DS_new(t, flds, given) ==
  post_init_from([fields |-> flds, self |-> init_attrs(flds, given), err |-> NoErr], 1)

\* the descriptors of a type that has instances: __post_init__ validated them
ValidDecl(t) == [j \in 1..Len(Decl(t)) |-> field_validate(Decl(t)[j]).f]

\* main.py 240-257: pack of a sub-record
packed(r, t) == sub_result(r, StructV(t, r.self))
DS_pack(self, strm, lg, d) ==
  packed(pack_from(pack_begin(ValidDecl(self.k), self.v, strm, lg), self.k, 1, d), self.k)

\* main.py 278-284: the instance is built from the collected values; an error
\* here is annotated '<Type>()', written as the field name "()"
constructed(s, made, t) ==
  [s EXCEPT !.fields = made.fields,
            !.ret = StructV(t, made.self),
            !.err = annotate(made.err, "unpacking", t, "()")]
unpack_finish(s, t) == constructed(s, DS_new(t, s.fields, s.self), t)

\* main.py 259-284: unpack of a sub-record
unpack_close(r, t) == IF Failed(r.err) THEN r ELSE unpack_finish(r, t)
unpacked(r) == sub_result(r, r.ret)
DS_unpack(t, strm, lg, d) ==
  unpacked(unpack_close(unpack_from(unpack_begin(Decl(t), strm, lg), t, 1, d), t))

\* ---------------------------------------------------------------- the state
VARIABLES
  cls,      \* the record type in use: its name
  fields,   \* its field descriptors, in declaration order
  origin,   \* "caller": an instance is constructed and packed; "stream": bytes are unpacked
  args,     \* the constructor arguments of the caller's instance (UNSET: not passed)
  phase,    \* where the caller is: declared, ready, packing, packed, unpacking, unpacked, failed
  pc,       \* the index of the field the running pack/unpack is to process next
  inst,     \* the instance's attribute values, in declaration order
  io,       \* the byte stream: [buf, pos]
  ctx,      \* the evaluation context of the running pack/unpack
  err,      \* the exception that reached the caller
  log,      \* the evaluate() calls of the running pack/unpack
  vals,     \* unpack: the values collected for the constructor
  out,      \* the instance unpack returned
  packs,    \* how many packs of the instance have completed
  builds    \* per field, how many times its builder was evaluated, over all packs

vars == <<cls, fields, origin, args, phase, pc, inst, io, ctx, err, log, vals, out, packs, builds>>

\* ---------------------------------------------------------------- the inputs
SeqsUpTo(S, n) == UNION {[1..m -> S] : m \in 0..n}
Streams == SeqsUpTo(0..2, MaxStream)
Inputs(t) ==
  LET InnerVals == {<<BytesV(bx), IntV(y)>> : bx \in {<<1>>, <<1, 2>>, <<1, 2, 0>>},
                                              y \in {1, 256}}
      MidVals == {<<IntV(h), StructV("Inner", iv)>> : h \in {0, 256}, iv \in InnerVals}
  IN
  CASE t = "Ints" -> {<<IntV(a), IntV(b)>> : a \in {0, 1, 256}, b \in {1, 258}}
    [] t = "Text" -> {<<StrV(<<1, 2>>)>>, <<BytesV(<<1, 2>>)>>, <<StrV(<<1>>)>>}
    [] t = "Hues" -> {<<EnumV(m)>> : m \in EnumMembers}
    [] t = "Rep" ->
         {<<IntV(n), ListV(l)>> : n \in 0..MaxLen, l \in SeqsUpTo({IntV(0), IntV(1)}, MaxLen)}
         \cup {<<IntV(2), TupleV(<<IntV(1), IntV(0)>>)>>, <<IntV(1), UNSET>>}
    [] t = "Cond" ->
         {<<flag, val>> : flag \in {BoolV(TRUE), BoolV(FALSE), IntV(0), IntV(1)},
                          val \in {IntV(1), IntV(2), UNSET}}
    [] t = "Pad" -> {<<IntV(a), UNSET, IntV(1)>> : a \in 0..2}
    [] t = "Run" ->
         {<<IntV(n), BytesV(l)>> : n \in 0..(MaxLen + 1), l \in SeqsUpTo({1, 2}, MaxLen)}
    [] t = "Built" -> {<<IntV(a), b, UNSET>> : a \in {1, 2}, b \in {UNSET, IntV(0)}}
    [] t = "Inner" -> InnerVals
    [] t = "Mid" -> MidVals
    [] t = "Outer" -> {<<IntV(0), StructV("Mid", mv)>> : mv \in MidVals}

\* ------------------------------------------------------------------ actions
Init ==
  /\ \E j \in 1..Len(Catalogue) : cls = Catalogue[j].t /\ fields = Catalogue[j].fields
  /\ origin \in {"caller", "stream"}
  /\ IF origin = "caller"
       THEN args \in Inputs(cls) /\ io = NewIO(<<>>)
       ELSE args = <<>> /\ io \in {NewIO(b) : b \in Streams}
  /\ phase = "declared"
  /\ pc = 0
  /\ inst = <<>>
  /\ ctx = EmptyCtx
  /\ err = NoErr
  /\ log = <<>>
  /\ vals = <<>>
  /\ out = <<>>
  /\ packs = 0
  /\ builds = [j \in 1..Len(fields) |-> 0]

\* the caller constructs an instance: main.py 29-48
NewTo(made) ==
  /\ fields' = made.fields
  /\ inst' = made.self
  /\ err' = made.err
  /\ phase' = IF Failed(made.err) THEN "failed" ELSE "ready"
New ==
  /\ phase = "declared" /\ origin = "caller"
  /\ NewTo(DS_new(cls, fields, args))
  /\ UNCHANGED <<cls, origin, args, pc, io, ctx, log, vals, out, packs, builds>>

\* the caller packs the instance into an empty stream: main.py 240-248
PackBeginTo(s) == io' = s.io /\ ctx' = s.ctx /\ log' = s.log
PackBegin ==
  /\ phase \in {"ready", "packed"} /\ packs < MaxPacks
  /\ PackBeginTo(pack_begin(fields, inst, NewIO(<<>>), <<>>))
  /\ pc' = 1
  /\ phase' = "packing"
  /\ UNCHANGED <<cls, fields, origin, args, inst, err, vals, out, packs, builds>>

Running(the_self) ==
  [io |-> io, ctx |-> ctx, self |-> the_self, fields |-> fields,
   err |-> NoErr, ret |-> NoneV, log |-> log]
BuilderCalls(lg, from) ==
  Cardinality({j \in (from + 1)..Len(lg) : lg[j].attr = "builder" /\ lg[j].d = 0})

\* pack processes its next field: main.py 250-257
PackFieldTo(r) ==
  /\ io' = r.io /\ ctx' = r.ctx /\ inst' = r.self /\ log' = r.log /\ err' = r.err
  /\ builds' = [builds EXCEPT ![pc] = @ + BuilderCalls(r.log, Len(log))]
  /\ phase' = IF Failed(r.err) THEN "failed"
              ELSE IF pc = Len(fields) THEN "packed" ELSE "packing"
  /\ packs' = IF ~Failed(r.err) /\ pc = Len(fields) THEN packs + 1 ELSE packs
PackField ==
  /\ phase = "packing"
  /\ PackFieldTo(pack_step(Running(inst), cls, pc, 0))
  /\ pc' = pc + 1
  /\ UNCHANGED <<cls, fields, origin, args, vals, out>>

\* the caller unpacks: the bytes just written, or the stream it was given:
\* main.py 259-268
UnpackBeginTo(s) == io' = s.io /\ ctx' = s.ctx /\ log' = s.log /\ vals' = s.self
UnpackBegin ==
  /\ \/ phase = "packed"
     \/ phase = "declared" /\ origin = "stream"
  /\ UnpackBeginTo(unpack_begin(fields, NewIO(io.buf), <<>>))
  /\ pc' = 1
  /\ phase' = "unpacking"
  /\ UNCHANGED <<cls, fields, origin, args, inst, err, out, packs, builds>>

\* unpack processes its next field: main.py 269-277, 281-284
UnpackFieldTo(r) ==
  /\ io' = r.io /\ ctx' = r.ctx /\ vals' = r.self /\ log' = r.log /\ err' = r.err
  /\ fields' = r.fields
  /\ phase' = IF Failed(r.err) THEN "failed" ELSE "unpacking"
UnpackField ==
  /\ phase = "unpacking" /\ pc <= Len(fields)
  /\ UnpackFieldTo(unpack_step(Running(vals), cls, pc, 0))
  /\ pc' = pc + 1
  /\ UNCHANGED <<cls, origin, args, inst, out, packs, builds>>

\* unpack constructs the instance: main.py 278-284
UnpackNewTo(r) ==
  /\ fields' = r.fields
  /\ err' = r.err
  /\ out' = IF Failed(r.err) THEN out ELSE r.ret.v
  /\ phase' = IF Failed(r.err) THEN "failed" ELSE "unpacked"
UnpackNew ==
  /\ phase = "unpacking" /\ pc > Len(fields)
  /\ UnpackNewTo(unpack_finish(Running(vals), cls))
  /\ UNCHANGED <<cls, origin, args, pc, inst, io, ctx, log, vals, packs, builds>>

Next == New \/ PackBegin \/ PackField \/ UnpackBegin \/ UnpackField \/ UnpackNew

Spec == Init /\ [][Next]_vars

\* ------------------------------------------------------------------ properties
\* which call the caller is in: vals is empty until an unpack begins
PackSide == pc > 0 /\ vals = <<>>
UnpackSide == vals # <<>>
\* Python's == on the values of the record types above: True == 1, 0 == False
PyEq(x, y) == x = y \/ (IsInt(x) /\ IsInt(y) /\ x.v = y.v)
\* the instance's values have the declared classes, a byte run has exactly the
\* declared length, a repeat was written in full and a condition is true
TypedAs(x, typ) ==
  IF typ.origin = "bool" THEN x.k = "bool"
  ELSE IF typ.origin = "int" THEN x.k = "int"
  ELSE x.k = typ.origin
RECURSIVE RunsExact(_, _)
RunsExact(t, v) ==
  CASE t = "Inner" -> Len(v[1].v) = 2
    [] t = "Mid" -> RunsExact("Inner", v[2].v)
    [] t = "Outer" -> RunsExact("Mid", v[2].v)
    [] OTHER -> TRUE
C1_Valid ==
  /\ RunsExact(cls, inst)
  /\ \A j \in 1..Len(fields) :
       fields[j].public => TypedAs(inst[j], fields[j].type)
  /\ cls = "Text" => Len(inst[1].v) = 2
  /\ cls = "Run" => Len(inst[2].v) = Len(io.buf) - 1
  /\ cls = "Rep" => Len(inst[2].v) = Len(io.buf) - 1
  /\ cls = "Cond" => inst[1] = BoolV(TRUE)

\* C1: whenever a valid instance was packed into an empty stream and the
\* written bytes were unpacked, every public field of the instance unpack
\* returned equals the corresponding field of the packed instance.
C1_RoundTrip ==
  (phase = "unpacked" /\ origin = "caller" /\ C1_Valid)
    => \A j \in 1..Len(fields) : fields[j].public => PyEq(out[j], inst[j])

\* C1: the round trip is reached with a well-formed text record.
C1_Reached ==
  phase = "unpacked" /\ origin = "caller" /\ C1_Valid /\ cls = "Text"

\* the declaration a log entry or a suffix refers to
DeclOf(t) == IF t = cls THEN fields ELSE Decl(t)
TypeOfField(t, name) ==
  LET d == DeclOf(t) IN d[CHOOSE j \in 1..Len(d) : d[j].name = name].type.origin
Direction == IF UnpackSide THEN "unpacking" ELSE "packing"
Annotatable == {"ValueError", "TypeError", "struct.error"}
FieldFailed == phase = "failed" /\ pc > 0 /\ err.kind \in Annotatable

\* C2 (as amended): an error of an annotated kind raised while a field is
\* packed or unpacked reaches the caller with one suffix per nesting level:
\* the first names the record type and field where it was raised (the place
\* of the last expression evaluated), each next one names the enclosing
\* record's field holding the previous record, and the last names the
\* caller's record and the field it was processing.
C2_SuffixPerLevel ==
  FieldFailed =>
    LET sx == err.suffixes
        n == Len(sx)
    IN /\ n >= 1
       /\ \A i \in 1..n : sx[i][1] = Direction
       /\ sx[n][2] = cls
       /\ \/ sx[n][3] = fields[pc - 1].name
          \/ UnpackSide /\ pc = Len(fields) + 1 /\ sx[n][3] = "()"
       /\ \A i \in 1..(n - 1) : sx[i][2] = TypeOfField(sx[i + 1][2], sx[i + 1][3])
       /\ sx[1][3] # "()" =>
            /\ log # <<>>
            /\ sx[1][2] = log[Len(log)].t
            /\ sx[1][3] = DeclOf(log[Len(log)].t)[log[Len(log)].k].name
            /\ n = log[Len(log)].d + 1

\* C2 (as stated): the error reaches the caller with exactly one suffix,
\* whatever the nesting depth.
C2_OneSuffix == FieldFailed => Len(err.suffixes) = 1

\* C2: an error raised two records deep reached the caller.
C2_Nested ==
  /\ phase = "failed" /\ cls = "Outer"
  /\ err.suffixes = <<(<<"unpacking", "Inner", "x">>), (<<"unpacking", "Mid", "inner">>),
                      (<<"unpacking", "Outer", "mid">>)>>

\* what the log of the running call holds about the caller's field k
Entries(k, attr) ==
  {a \in 1..Len(log) : log[a].k = k /\ log[a].d = 0 /\ log[a].attr = attr}
HasCount(k) == Entries(k, "count") # {}
CountSeen(k) ==
  LET a == CHOOSE a \in Entries(k, "count") : TRUE
  IN evaluate(log[a].ctx, fields[k].count)
MismatchText == "List size doesn't match repeat() 'count' parameter value"
\* the repeat of a Rep record was just packed (or its pack just failed)
RepPacked == cls = "Rep" /\ PackSide /\ pc = 3 /\ HasCount(2)
RepUnpacked == cls = "Rep" /\ UnpackSide /\ pc = 3 /\ phase # "failed" /\ HasCount(2)
Counted == IsInt(CountSeen(2))
SuppliedBase == ~ExprTruthy(fields[2].base.builder)
Unstopped == fields[2].when = NoneE /\ fields[2].last = NoneE
WroteAll(n) ==
  /\ phase = "packed"
  /\ Len(io.buf) = 1 + n
  /\ \A j \in 1..n : io.buf[1 + j] = inst[2].v[j].v[1]

\* C3 (as amended): for a repeat whose count resolves to an integer n over a
\* non-builder base, pack raises the length-mismatch error and writes no
\* element when the sequence's length differs from n, and, when the length
\* is n and no when/last predicate is declared, succeeds and writes exactly
\* the n elements; unpack without when/last that completes yields exactly n
\* elements; over a builder base a length mismatch is no error.
C3_CountEnforced ==
  /\ (RepPacked /\ Counted /\ SuppliedBase /\ Len(inst[2].v) # CountSeen(2).v[1])
       => /\ phase = "failed"
          /\ err.kind = "ValueError" /\ err.text = MismatchText
          /\ Len(io.buf) = 1
  /\ (RepPacked /\ Counted /\ SuppliedBase /\ Len(inst[2].v) = CountSeen(2).v[1]
        /\ Unstopped)
       => WroteAll(CountSeen(2).v[1])
  /\ (RepUnpacked /\ Counted /\ Unstopped)
       => Len(vals[2].v) = CountSeen(2).v[1]
  /\ (RepPacked /\ ~SuppliedBase) => err.text # MismatchText

\* C3 (as stated): as above, but pack writes exactly n elements whenever the
\* length equals n, whatever when/last predicates the repeat declares.
C3_CountAsStated ==
  /\ (RepPacked /\ Counted /\ SuppliedBase /\ Len(inst[2].v) # CountSeen(2).v[1])
       => /\ phase = "failed"
          /\ err.kind = "ValueError" /\ err.text = MismatchText
  /\ (RepPacked /\ Counted /\ SuppliedBase /\ Len(inst[2].v) = CountSeen(2).v[1])
       => WroteAll(CountSeen(2).v[1])
  /\ (RepUnpacked /\ Counted /\ Unstopped)
       => Len(vals[2].v) = CountSeen(2).v[1]
  /\ (RepPacked /\ ~SuppliedBase) => err.text # MismatchText

\* C3: a two-element sequence was packed under count 2, and a mismatch raised.
C3_Counted ==
  /\ RepPacked /\ Counted /\ SuppliedBase /\ Unstopped
  /\ CountSeen(2) = IntV(2) /\ Len(inst[2].v) = 2 /\ phase = "packed"
  /\ Len(io.buf) = 3

\* C4: once `last` is true for an element (seen as ctx.item, at index ctx.i),
\* that element was processed, every element before it was, and nothing more
\* of the repeat is evaluated, written or read: pack has written exactly the
\* i+1 elements, unpack yields exactly i+1 elements and has consumed exactly
\* their bytes, however much of the sequence or stream remains.
C4_StopsAtLast ==
  \A a \in 1..Len(log) :
    (/\ log[a].d = 0 /\ log[a].attr = "last"
     /\ fields[log[a].k].ftype = "REPEAT"
     /\ Truthy(evaluate(log[a].ctx, fields[log[a].k].last)))
    => LET k == log[a].k
           i == log[a].ctx["i"].v[1]
           item == log[a].ctx["item"]
       IN /\ \A b \in (a + 1)..Len(log) : log[b].k # k
          /\ Cardinality(Entries(k, "fmt")) = i + 1
          /\ (PackSide /\ pc > k /\ cls = "Rep")
               => /\ phase # "failed"
                  /\ Len(io.buf) = 1 + (i + 1)
                  /\ io.buf[i + 2] = item.v[1]
                  /\ SuppliedBase =>
                       \A j \in 1..(i + 1) : io.buf[1 + j] = inst[k].v[j].v[1]
          /\ (UnpackSide /\ pc > k /\ cls = "Rep")
               => /\ Len(vals[k].v) = i + 1
                  /\ vals[k].v[i + 1] = item
                  /\ \A j \in 1..(i + 1) : vals[k].v[j] = IntV(io.buf[1 + j])
                  /\ io.pos = 1 + (i + 1)

\* C4: unpack stopped at the element 0 with a byte of the stream left unread.
C4_StoppedEarly ==
  /\ cls = "Rep" /\ UnpackSide /\ pc = 3 /\ phase = "unpacking"
  /\ fields[2].last = ItemEq(0) /\ fields[2].count = NoneE
  /\ vals[2] = ListV(<<IntV(1), IntV(0)>>)
  /\ io.pos = 3 /\ Len(io.buf) = 4

\* the elements the repeat of a Rep record pulled from the supplied sequence
Taken == Cardinality(Entries(2, "fmt"))
IndexAt(a) == log[a].ctx["i"].v[1]
WhenPassed(a) == Truthy(evaluate(log[a].ctx, fields[2].when))
StoppedByPredicate ==
  \/ \E a \in Entries(2, "when") : ~WhenPassed(a)
  \/ \E a \in Entries(2, "last") : Truthy(evaluate(log[a].ctx, fields[2].last))
Exhausted == phase = "failed" /\ err.kind = "StopIteration"

\* C11: when pack processes a REPEAT over a non-builder base, the iterations
\* that pass the count bound and `when` take the elements of the supplied
\* sequence one each, in order (iteration i writes element i, and nothing
\* else is written); an iteration that passes both with no element left
\* raises (StopIteration) instead of ending the loop, and only then; so a
\* pack under an unbounded count succeeds only if `when` or `last` stopped
\* it, and with neither declared it always fails, whatever the sequence.
C11_Consumption ==
  (RepPacked /\ SuppliedBase) =>
    /\ Taken <= Len(inst[2].v)
    /\ Len(io.buf) = 1 + Taken
    /\ \A j \in 1..Taken :
         /\ io.buf[1 + j] = inst[2].v[j].v[1]
         /\ \E a \in Entries(2, "fmt") : IndexAt(a) = j - 1
    /\ \A a \in Entries(2, "when") :
         WhenPassed(a) =>
           \/ \E b \in Entries(2, "fmt") : b > a /\ IndexAt(b) = IndexAt(a)
           \/ IndexAt(a) = Len(inst[2].v) /\ Exhausted
    /\ Exhausted => Taken = Len(inst[2].v) /\ ~StoppedByPredicate
    /\ (CountSeen(2) = NoneV /\ phase = "packed") => StoppedByPredicate
    /\ (CountSeen(2) = NoneV /\ Unstopped) => Exhausted

\* C11: an unbounded repeat with no predicates took both elements of a
\* two-element list and raised at the third iteration.
C11_RanOut ==
  /\ RepPacked /\ SuppliedBase /\ Unstopped /\ fields[2].count = NoneE
  /\ inst[2] = ListV(<<IntV(1), IntV(0)>>)
  /\ Exhausted /\ io.buf = <<inst[1].v[1], 1, 0>>

\* the steps of the running call
PackingField == phase = "packing"
UnpackingField == phase = "unpacking" /\ pc <= Len(fields)
IsFalse(c, e) == evaluate(c, e) = BoolV(FALSE)

\* C5: when pack or unpack processes a COND field whose condition evaluates
\* to False, pack writes nothing, evaluates nothing of the base and leaves
\* instance and context as they were; unpack reads nothing and either yields
\* the evaluated if_not, also published on the context under the field's
\* name, or, with no if_not declared, collects no value for the constructor
\* and leaves the context as it was. When the condition is not False, the
\* step is the base field's write or read rule.
C5_CondAbsence ==
  [][/\ (PackingField /\ fields[pc].ftype = "COND")
          => IF IsFalse(ctx, fields[pc].condition)
               THEN /\ io' = io /\ inst' = inst /\ ctx' = ctx /\ err' = NoErr
                    /\ builds' = builds
                    /\ Len(log') = Len(log) + 1
                    /\ log'[Len(log')].attr = "condition"
               ELSE LET r == write_field(Running(inst), At(cls, pc, 0),
                                         fields[pc].base, inst[pc])
                    IN /\ io' = r.io /\ inst' = r.self /\ ctx' = r.ctx
                       /\ err'.kind = r.err.kind /\ err'.text = r.err.text
                       /\ Len(log') = Len(r.log) + 1
     /\ (UnpackingField /\ fields[pc].ftype = "COND")
          => IF IsFalse(ctx, fields[pc].condition)
               THEN /\ io' = io /\ err' = NoErr
                    /\ IF fields[pc].if_not # Lit(UNSET)
                         THEN /\ vals'[pc] = evaluate(ctx, fields[pc].if_not)
                              /\ ctx' = [ctx EXCEPT ![fields[pc].name] =
                                           evaluate(ctx, fields[pc].if_not)]
                         ELSE vals'[pc] = UNSET /\ ctx' = ctx
               ELSE LET r == read_field(Running(vals), At(cls, pc, 0), fields'[pc].base)
                    IN /\ io' = r.io /\ ctx' = r.ctx
                       /\ err'.kind = r.err.kind /\ err'.text = r.err.text
                       /\ ~Failed(r.err) => vals'[pc] = r.ret
    ]_vars

\* C5: unpack met a false flag and yielded the declared if_not, reading nothing.
C5_Absent ==
  /\ cls = "Cond" /\ phase = "unpacking" /\ pc = 3
  /\ vals = <<BoolV(FALSE), IntV(-1)>> /\ ctx["val"] = IntV(-1)
  /\ io.pos = 1 /\ Len(io.buf) > 1

\* the value the running call holds for the caller's field j
Held(j) == IF UnpackSide THEN vals[j] ELSE inst[j]
InOrder(a) == \A b \in 1..(a - 1) : log[b].d = 0 => log[b].k <= log[a].k
EarlierHeld(a) ==
  \A j \in 1..(log[a].k - 1) :
    (fields[j].public /\ Held(j) # UNSET) => log[a].ctx[fields[j].name] = Held(j)
\* on unpack, a repeat's own list is on the context while its elements are read
OwnList(a) ==
  LET c == log[a].ctx
      sofar == c[fields[log[a].k].name]
  IN /\ sofar.k = "list"
     /\ Len(sofar.v) = c["i"].v[1] + (IF log[a].attr = "last" THEN 1 ELSE 0)
     /\ (pc > log[a].k /\ phase # "failed")
          => sofar.v = SubSeq(vals[log[a].k].v, 1, Len(sofar.v))

\* C6 (as amended): the expressions of the caller's record are evaluated in
\* declaration order; whenever one of field k is evaluated the context holds,
\* under its name, the value of every earlier public field that has one; on
\* unpack it holds nothing for any later field, and nothing for field k
\* itself, except that a REPEAT's `when`, `last` and element formats see the
\* list of the elements read so far under the field's own name.
C6_Order ==
  \A a \in 1..Len(log) :
    log[a].d = 0 =>
      /\ InOrder(a)
      /\ EarlierHeld(a)
      /\ UnpackSide =>
           \A j \in log[a].k..Len(fields) :
             fields[j].public =>
               IF j = log[a].k /\ fields[j].ftype = "REPEAT" /\ log[a].attr # "count"
                 THEN OwnList(a)
                 ELSE log[a].ctx[fields[j].name] = ABSENT

\* C6 (as stated): on unpack the context holds no value for field k or any
\* later field whenever an expression of field k is evaluated.
C6_AsStated ==
  \A a \in 1..Len(log) :
    log[a].d = 0 =>
      /\ InOrder(a)
      /\ EarlierHeld(a)
      /\ UnpackSide =>
           \A j \in log[a].k..Len(fields) :
             fields[j].public => log[a].ctx[fields[j].name] = ABSENT

\* C6: the `last` of a repeat was evaluated on unpack with the earlier field
\* n and the two elements read so far on the context.
C6_SeenOnContext ==
  /\ cls = "Rep" /\ UnpackSide
  /\ \E a \in 1..Len(log) :
       /\ log[a].attr = "last" /\ log[a].k = 2
       /\ log[a].ctx["n"] = IntV(2)
       /\ log[a].ctx["items"] = ListV(<<IntV(1), IntV(0)>>)

\* a later call on a descriptor: nothing of it or of its base changes
Settled(f) == field_validate(f) = [f |-> f, err |-> NoErr]

\* the constructor has run field_validate on every descriptor of the record
Constructed == phase \in {"ready", "packing", "packed", "unpacked"}

\* C7 (as amended): a field_validate call that returns without error leaves
\* a public descriptor, and the base it wraps, with validated = true, and
\* leaves a layout-only descriptor exactly as it was, its validated flag
\* still false; in both cases every later call changes nothing of the
\* descriptor or of its base.
C7_ValidatedOnce ==
  \A j \in 1..Len(fields) :
    LET r == field_validate(fields[j])
    IN ~Failed(r.err) =>
         /\ fields[j].public =>
              /\ r.f.validated
              /\ r.f.base.ftype # "NONE" => r.f.base.validated
         /\ ~fields[j].public => r.f = fields[j] /\ ~r.f.validated
         /\ Settled(r.f)
         /\ Constructed => fields[j].validated = fields[j].public

\* C7 (as stated): after a call that returns without error the validated
\* flag is true, for public and layout-only descriptors alike, and every
\* later call changes nothing.
C7_AsStated ==
  \A j \in 1..Len(fields) :
    LET r == field_validate(fields[j])
    IN ~Failed(r.err) =>
         /\ r.f.validated /\ Settled(r.f)
         /\ Constructed => fields[j].validated

\* C7: construction has validated the public fields around a padding field.
C7_Constructed ==
  /\ cls = "Pad" /\ phase = "ready"
  /\ fields[1].validated /\ fields[3].validated
  /\ ~fields[2].public /\ ~fields[2].validated

\* the padding the field at pc stands for
PadResolved(f) == ExprTruthy(f.length) \/ ExprTruthy(f.modulus)
PadLength(f) ==
  IF ExprTruthy(f.length) THEN evaluate(ctx, f.length).v[1]
  ELSE LET m == evaluate(ctx, f.modulus).v[1] IN (m - (io.pos % m)) % m
Cyclic(P, L) == [j \in 1..L |-> P[((j - 1) % Len(P)) + 1]]
Ahead(L) == SubSeq(io.buf, io.pos + 1, Min(io.pos + L, Len(io.buf)))
InvalidPadding(e) == e.kind = "ValueError" /\ e.text = "Invalid padding found"

C9_ByteRun ==
  [][(/\ PackingField /\ fields[pc].ftype = "FIELD"
      /\ ~ExprTruthy(fields[pc].builder)
      /\ evaluate(ctx, fields[pc].fmt).k = "int"
      /\ inst[pc].k = "bytes")
       => LET n == evaluate(ctx, fields[pc].fmt).v[1]
              v == inst[pc].v
          IN IF Len(v) < n
               THEN /\ err'.kind = "ValueError"
                    /\ err'.text = "Not enough bytes to write"
                    /\ io' = io
               ELSE /\ err' = NoErr
                    /\ io'.buf = io.buf \o [j \in 1..n |-> v[j]]
                    /\ inst'[pc] = inst[pc]
    ]_vars

\* C9: a two-byte value was packed under n = 1: one byte went to the stream.
C9_Truncated ==
  /\ cls = "Run" /\ phase = "packed"
  /\ inst[1] = IntV(1) /\ inst[2] = BytesV(<<2, 1>>)
  /\ io.buf = <<1, 2>>

\* the FIELD a pack step writes: the field itself, or a present COND's base
Written(j) == IF fields[j].ftype = "COND" THEN fields[j].base ELSE fields[j]
Reaches(j) ==
  \/ fields[j].ftype = "FIELD"
  \/ fields[j].ftype = "COND" /\ ~IsFalse(ctx, fields[j].condition)
HasBuilder(j) == Written(j).ftype = "FIELD" /\ ExprTruthy(Written(j).builder)
\* the packs that have reached the caller's field j so far
PacksReaching(j) ==
  packs + (IF phase \in {"packing", "failed"} /\ PackSide /\ pc > j THEN 1 ELSE 0)

\* C10: when pack reaches a FIELD with a builder, the builder is evaluated
\* if and only if the held value is UNSET or always is set; the value
\* written, stored on the instance and published on the context is the
\* builder's result if it was evaluated and the held value otherwise. So a
\* builder with always = false is evaluated at most once over the packs of
\* an instance, and one with always = true once in every pack reaching it.
C10_BuilderRule ==
  /\ [][(PackingField /\ Reaches(pc) /\ HasBuilder(pc))
          => LET ev == inst[pc] = UNSET \/ Written(pc).always
                 v == IF ev THEN evaluate(ctx, Written(pc).builder) ELSE inst[pc]
             IN /\ builds'[pc] = builds[pc] + (IF ev THEN 1 ELSE 0)
                /\ err' = NoErr =>
                     /\ inst'[pc] = v
                     /\ ctx'[fields[pc].name] = v
                     /\ io'.buf = io.buf \o <<v.v[1]>>
       ]_vars
  /\ [](\A j \in 1..Len(fields) :
          HasBuilder(j) =>
            IF Written(j).always
              THEN fields[j].ftype = "FIELD" => builds[j] = PacksReaching(j)
              ELSE builds[j] <= 1)

\* C10: after two packs the builder of b (always = false) ran once and the
\* builder of c (always = true) twice.
C10_TwoPacks ==
  /\ cls = "Built" /\ phase = "packed" /\ packs = 2
  /\ ~fields[2].always /\ args[2] = UNSET
  /\ builds = <<0, 1, 2>>

====
